---- MODULE Spec2Model ----
(***************************************************************************)
(* Model of the busted run orchestrator: execute() and withIdleWatchdog(). *)
(* One run = one spawned child, one readline interface on its stdout, one  *)
(* interval timer, one cancellation token and one promise the caller       *)
(* awaits.  Every handler the code registers is one action.                *)
(***************************************************************************)
EXTENDS Integers, Sequences, FiniteSets, TLC

\* ---------------------------------------------------------------- bounds
MaxLines == 2       \* stdout lines the child writes in one run
MaxChunk == 2       \* lines carried by one stdout 'data' chunk
MaxStderr == 1      \* stderr 'data' chunks in one run
IdleTicks == 1      \* idleTimeoutMs, in timer periods (1000 ms each)
MaxCancel == 2      \* cancellation requests made by the user

\* ---------------------------------------------------------- vocabulary
None == "none"                       \* undefined (no TestItem)
Known == {"t1", "t2"}                \* names cache.getTest resolves
Names == Known \cup {"zz"}           \* names the child may report
Statuses == {"success", "failure", "pending", "error"}
NullCode == <<>>                     \* close event's code === null
ExitCodes == {<<0>>, <<1>>}          \* codes of a child that exits by itself
\* the code 'close' carries after a failed spawn is the negative errno the
\* 'error' event reported (-ENOENT, -EACCES), never null
SpawnErrnos == {<<-2>>, <<-13>>}

\* text: what a passthrough line says ("" on a structured line)
mkLine(ty, t, s) == [type |-> ty, test |-> t, status |-> s, text |-> ""]
mkText(x) == [mkLine("text", None, None) EXCEPT !.text = x]
TextLine == mkText("a")                      \* no MAGIC prefix
BadLine == mkLine("bad", None, None)         \* MAGIC prefix, payload throws
ReportLines ==
    {mkLine("testStart", n, None) : n \in Names}
      \cup {mkLine("testEnd", n, s) : n \in Names, s \in Statuses}
      \cup {mkLine("error", None, None), mkLine("other", None, None)}
Lines == {TextLine, mkText("b"), BadLine} \cup ReportLines
\* the alphabet of the runs that race the stream against the other events
FewLines == {TextLine, BadLine, mkLine("testStart", "t1", None),
             mkLine("testEnd", "t1", "success")}

\* cache.getTest(report.test): the identity resolver
getTest(name) == IF name \in Known THEN name ELSE None

VARIABLES
    proc,          \* child: "failed" (spawn failed, 'error' pending), "running",
                   \*        "hung", "exited" ('close' pending), "closed"
    exitCode,      \* the code the 'close' event will carry
    signals,       \* signals child.kill() has delivered to the live child
    emitted,       \* stdout lines delivered to readline so far
    nStderr,       \* stderr chunks delivered so far
    elapsed,       \* Date.now() - last, in timer periods
    timer,         \* the watchdog's interval is still set
    fired,         \* times the watchdog's timeout branch ran
    activeAtFire,  \* execute's currentTest at the moment the branch ran
    currentTest,   \* execute's currentTest
    cntSuccessTests,
    cntFailTests,
    output,        \* run.appendOutput calls: [kind, test]
    calls,         \* run.started/passed/failed/skipped/errored calls: [op, test]
    handled,       \* lines whose 'line' handler ran to its end
    uncaught,      \* exceptions that escaped the 'line' handler
    notifications, \* vscode.window.showErrorMessage calls
    resolves,      \* arguments of the resolve() calls, in order
    cancelReqs,    \* cancellation requests made
    cancelled,     \* the token has fired its listeners
    pc             \* execute: "await" (at the await) or "done" (after run.end())

vars == <<proc, exitCode, signals, emitted, nStderr, elapsed, timer, fired,
          activeAtFire, currentTest, cntSuccessTests, cntFailTests, output,
          calls, handled, uncaught, notifications, resolves, cancelReqs,
          cancelled, pc>>

childVars == <<proc, exitCode, signals>>
sinkVars == <<output, calls, notifications>>
lineVars == <<currentTest, cntSuccessTests, cntFailTests, handled, uncaught>>
wdVars == <<elapsed, timer, fired, activeAtFire>>

\* info: what the message carries: the line itself of a passthrough line,
\* the test name (and status) of a run or end line, the counters of a
\* summary line
out(kind, test, info) == [kind |-> kind, test |-> test, info |-> info]
call(op, test) == [op |-> op, test |-> test]

\* resultConcole(run, msg, location, test): one appendOutput call
resultConcole(o, kind, info, test) == Append(o, out(kind, test, info))

Init ==
    /\ proc \in {"running", "failed"}
    /\ exitCode = NullCode
    /\ signals = 0
    /\ emitted = <<>>
    /\ nStderr = 0
    /\ elapsed = 0
    /\ timer = TRUE
    /\ fired = 0
    /\ activeAtFire = None
    /\ currentTest = None
    /\ cntSuccessTests = 0
    /\ cntFailTests = 0
    /\ output = <<>>
    /\ calls = <<>>
    /\ handled = <<>>
    /\ uncaught = 0
    /\ notifications = 0
    /\ resolves = <<>>
    /\ cancelReqs = 0
    /\ cancelled = FALSE
    /\ pc = "await"

\* ------------------------------------------------- the 'line' handler
\* The part of execute's state a stdout line can change.
lineState ==
    [cur |-> currentTest, succ |-> cntSuccessTests, fail |-> cntFailTests,
     out |-> output, calls |-> calls, handled |-> handled, uncaught |-> uncaught]

\* onTestStart with currentTest assigned whatever the resolver returned
onTestStart_AlwaysOverwrite(st, testName, test) ==
    LET o == resultConcole(st.out, "run", <<testName>>, None) IN
    IF test # None
      THEN [st EXCEPT !.out = o, !.calls = Append(@, call("started", test)),
                      !.cur = test]
      ELSE [st EXCEPT !.out = o, !.cur = test]

\* onTestStart without the if (test)
onTestStart_NoGuard(st, testName, test) ==
    [st EXCEPT !.out = resultConcole(@, "run", <<testName>>, None),
               !.calls = Append(@, call("started", test)),
               !.cur = test]

\* case 'testStart'
onTestStart(st, testName, test) ==
    LET o == resultConcole(st.out, "run", <<testName>>, None) IN
    IF test # None
      THEN [st EXCEPT !.out = o, !.calls = Append(@, call("started", test)),
                      !.cur = test]
      ELSE [st EXCEPT !.out = o]

\* onStatus with status 'error' reported through run.failed
onStatus_ErrorAsFailed(st, test, status) ==
    CASE status = "success" ->
           [st EXCEPT !.calls = Append(@, call("passed", test)), !.succ = @ + 1]
      [] status \in {"failure", "error"} ->
           [st EXCEPT !.calls = Append(@, call("failed", test)), !.fail = @ + 1]
      [] status = "pending" ->
           [st EXCEPT !.calls = Append(@, call("skipped", test))]
      [] OTHER -> st

\* the inner switch (report.status) of case 'testEnd'
onStatus(st, test, status) ==
    CASE status = "success" ->
           [st EXCEPT !.calls = Append(@, call("passed", test)), !.succ = @ + 1]
      [] status = "failure" ->
           [st EXCEPT !.calls = Append(@, call("failed", test)), !.fail = @ + 1]
      [] status = "pending" ->
           [st EXCEPT !.calls = Append(@, call("skipped", test))]
      [] status = "error" ->
           [st EXCEPT !.calls = Append(@, call("errored", test)), !.fail = @ + 1]
      [] OTHER -> st

\* onTestEnd with the report counted whether or not its name resolves
onTestEnd_NoGuard(st, testName, test, status) ==
    onStatus([st EXCEPT !.out = resultConcole(@, "end", <<testName, status>>, None),
                        !.cur = None],
             test, status)

\* case 'testEnd'
onTestEnd(st, testName, test, status) ==
    LET s1 == [st EXCEPT !.out = resultConcole(@, "end", <<testName, status>>,
                                                None),
                         !.cur = None] IN
    IF test # None THEN onStatus(s1, test, status) ELSE s1

\* case 'error'
onErrorReport(st) ==
    [st EXCEPT !.fail = @ + 1, !.out = resultConcole(@, "error", <<>>, st.cur)]

\* onUnknownReport without the cntFailTests++
onUnknownReport_NotCounted(st) == st

\* default: unknown report type
onUnknownReport(st) == [st EXCEPT !.fail = @ + 1]

\* rl.on('line', ...) for a line that does not throw
onLine(st, line) ==
    LET done ==
          CASE line.type = "text" ->
                 [st EXCEPT !.out = resultConcole(@, "text", <<line.text>>, st.cur)]
            [] line.type = "testStart" ->
                 onTestStart(st, line.test, getTest(line.test))
            [] line.type = "testEnd" ->
                 onTestEnd(st, line.test, getTest(line.test), line.status)
            [] line.type = "error" -> onErrorReport(st)
            [] OTHER -> onUnknownReport(st)
    IN [done EXCEPT !.handled = Append(@, line)]

\* JSON.parse(line.substring(MAGIC.length + 1)) and report.test.split throw
\* on a payload that is not a report
throws(line) == line.type = "bad"

\* readline hands the lines of one chunk to the handler in a loop; nothing
\* in the handler catches, so an exception leaves the handler and the loop:
\* the rest of the chunk is never handed over.
RECURSIVE feed(_, _)
feed(st, chunk) ==
    IF chunk = <<>> THEN st
    ELSE IF throws(Head(chunk)) THEN [st EXCEPT !.uncaught = @ + 1]
    ELSE feed(onLine(st, Head(chunk)), Tail(chunk))

\* the chunks of at most room lines
Chunks(alphabet, room) ==
    UNION {[1..n -> alphabet] : n \in 1..(IF room < MaxChunk THEN room ELSE MaxChunk)}

\* child.kill(): a signal is sent while the child is alive; with the handle
\* gone (exited, spawn failed) the call returns false and does nothing
alive(p) == p \in {"running", "hung"}
kill(p, s) == IF alive(p) THEN s + 1 ELSE s

\* child.stdout 'data': bump() in the watchdog, then readline's lines
StdoutData(alphabet, maxLines) ==
    /\ proc = "running"
    /\ \E chunk \in Chunks(alphabet, maxLines - Len(emitted)) :
         /\ emitted' = emitted \o chunk
         /\ LET st == feed(lineState, chunk) IN
              /\ currentTest' = st.cur
              /\ cntSuccessTests' = st.succ
              /\ cntFailTests' = st.fail
              /\ output' = st.out
              /\ calls' = st.calls
              /\ handled' = st.handled
              /\ uncaught' = st.uncaught
    /\ elapsed' = 0
    /\ UNCHANGED <<childVars, nStderr, timer, fired, activeAtFire,
                   notifications, resolves, cancelReqs, cancelled, pc>>

\* StderrData without the watchdog's stderr listener (no bump)
StderrData_NoBump ==
    /\ proc = "running"
    /\ nStderr < MaxStderr
    /\ nStderr' = nStderr + 1
    /\ output' = resultConcole(output, "stderr", <<>>, currentTest)
    /\ UNCHANGED <<childVars, emitted, wdVars, lineVars, calls, notifications,
                   resolves, cancelReqs, cancelled, pc>>

\* child.stderr 'data': bump() in the watchdog, then execute's handler
StderrData ==
    /\ proc = "running"
    /\ nStderr < MaxStderr
    /\ nStderr' = nStderr + 1
    /\ elapsed' = 0
    /\ output' = resultConcole(output, "stderr", <<>>, currentTest)
    /\ UNCHANGED <<childVars, emitted, timer, fired, activeAtFire, lineVars,
                   calls, notifications, resolves, cancelReqs, cancelled, pc>>

\* ------------------------------------------------------- the child
\* the child stops writing and would never exit by itself
Hang ==
    /\ proc = "running"
    /\ proc' = "hung"
    /\ UNCHANGED <<exitCode, signals, emitted, nStderr, wdVars, lineVars,
                   sinkVars, resolves, cancelReqs, cancelled, pc>>

\* the child exits by itself
ChildExit ==
    /\ proc = "running"
    /\ \E c \in ExitCodes : exitCode' = c
    /\ proc' = "exited"
    /\ UNCHANGED <<signals, emitted, nStderr, wdVars, lineVars, sinkVars,
                   resolves, cancelReqs, cancelled, pc>>

\* the child dies of a signal kill() sent: the exit code is null
ChildKilled ==
    /\ alive(proc)
    /\ signals > 0
    /\ exitCode' = NullCode
    /\ proc' = "exited"
    /\ UNCHANGED <<signals, emitted, nStderr, wdVars, lineVars, sinkVars,
                   resolves, cancelReqs, cancelled, pc>>

\* ------------------------------------------------------ the watchdog
\* withIdleWatchdog's parameter currentTest: the value execute passes at the
\* call, where its own currentTest is still undefined
watchdogTest == None

\* timeoutBranch without the child.kill()
timeoutBranch_NoKill ==
    /\ output' = resultConcole(output, "timeout", <<>>, watchdogTest)
    /\ calls' = IF watchdogTest # None
                  THEN Append(calls, call("errored", watchdogTest))
                  ELSE calls
    /\ signals' = signals
    /\ timer' = FALSE
    /\ fired' = fired + 1
    /\ activeAtFire' = currentTest

\* the timeout branch of the interval callback
timeoutBranch ==
    /\ output' = resultConcole(output, "timeout", <<>>, watchdogTest)
    /\ calls' = IF watchdogTest # None
                  THEN Append(calls, call("errored", watchdogTest))
                  ELSE calls
    /\ signals' = kill(proc, signals)
    /\ timer' = FALSE
    /\ fired' = fired + 1
    /\ activeAtFire' = currentTest

\* setInterval(..., 1000): one period passes, then the callback runs
WatchdogTick ==
    /\ timer
    /\ proc # "failed"
    /\ elapsed' = elapsed + 1
    /\ IF elapsed + 1 > IdleTicks
         THEN timeoutBranch
         ELSE UNCHANGED <<output, calls, signals, timer, fired, activeAtFire>>
    /\ UNCHANGED <<proc, exitCode, emitted, nStderr, lineVars, notifications,
                   resolves, cancelReqs, cancelled, pc>>

\* ------------------------------------------ child 'error' and 'close'
\* OnError with the run finalized by the 'error' handler as well
OnError_Finalizing ==
    /\ proc = "failed"
    /\ timer' = FALSE
    /\ output' = resultConcole(resultConcole(output, "spawnerr", <<>>, currentTest),
                               "failedWith", <<>>, currentTest)
    /\ notifications' = notifications + 1
    /\ resolves' = Append(resolves, 1)
    /\ proc' = "exited"
    /\ \E c \in SpawnErrnos : exitCode' = c
    /\ UNCHANGED <<signals, emitted, nStderr, elapsed, fired, activeAtFire,
                   lineVars, calls, cancelReqs, cancelled, pc>>

\* child 'error' (the spawn failed): the watchdog's listener, then execute's
OnError ==
    /\ proc = "failed"
    /\ timer' = FALSE
    /\ output' = resultConcole(output, "spawnerr", <<>>, currentTest)
    /\ notifications' = notifications + 1
    /\ proc' = "exited"
    /\ \E c \in SpawnErrnos : exitCode' = c
    /\ UNCHANGED <<signals, emitted, nStderr, elapsed, fired, activeAtFire,
                   lineVars, calls, resolves, cancelReqs, cancelled, pc>>

\* resolvedCode with null taken for success
resolvedCode_NullIsZero(code) == IF code = NullCode THEN 0 ELSE code[1]

\* resolvedCode with every code but 0 turned into 1
resolvedCode_OneUnlessZero(code) == IF code = <<0>> THEN 0 ELSE 1

\* code ?? 1
resolvedCode(code) == IF code = NullCode THEN 1 ELSE code[1]

\* summaryLine with the two counters printed in each other's place
summaryLine_CountersSwapped(code) ==
    out(IF code = <<0>> THEN "finished" ELSE "failedWith", currentTest,
        <<cntFailTests, cntSuccessTests>>)

\* the summary line of the 'close' handler
summaryLine(code) ==
    out(IF code = <<0>> THEN "finished" ELSE "failedWith", currentTest,
        <<cntSuccessTests, cntFailTests>>)

\* OnClose without the watchdog's clearInterval listener
OnClose_TimerLeft ==
    /\ proc = "exited"
    /\ output' = Append(output, summaryLine(exitCode))
    /\ resolves' = Append(resolves, resolvedCode(exitCode))
    /\ proc' = "closed"
    /\ UNCHANGED <<exitCode, signals, emitted, nStderr, wdVars, lineVars,
                   calls, notifications, cancelReqs, cancelled, pc>>

\* child 'close': the watchdog's listener, then execute's
OnClose ==
    /\ proc = "exited"
    /\ timer' = FALSE
    /\ output' = Append(output, summaryLine(exitCode))
    /\ resolves' = Append(resolves, resolvedCode(exitCode))
    /\ proc' = "closed"
    /\ UNCHANGED <<exitCode, signals, emitted, nStderr, elapsed, fired,
                   activeAtFire, lineVars, calls, notifications, cancelReqs,
                   cancelled, pc>>

\* ------------------------------------------------------ cancellation
\* the cancellation listener without the busted.kill()
onCancellationRequested_NoKill == signals' = signals

\* token.onCancellationRequested(() => busted.kill())
onCancellationRequested == signals' = kill(proc, signals)

\* CancelRequest with the active test marked errored by the listener
CancelRequest_ErrorsActive ==
    /\ proc # "failed"
    /\ cancelReqs < MaxCancel
    /\ cancelReqs' = cancelReqs + 1
    /\ cancelled' = TRUE
    /\ IF cancelled THEN UNCHANGED <<signals, calls>>
         ELSE /\ onCancellationRequested
              /\ calls' = IF currentTest # None
                            THEN Append(calls, call("errored", currentTest))
                            ELSE calls
    /\ UNCHANGED <<proc, exitCode, emitted, nStderr, wdVars, lineVars,
                   output, notifications, resolves, pc>>

\* the user cancels: the token fires its listeners on the first request only
CancelRequest ==
    /\ proc # "failed"
    /\ cancelReqs < MaxCancel
    /\ cancelReqs' = cancelReqs + 1
    /\ cancelled' = TRUE
    /\ IF cancelled THEN UNCHANGED signals ELSE onCancellationRequested
    /\ UNCHANGED <<proc, exitCode, emitted, nStderr, wdVars, lineVars,
                   sinkVars, resolves, pc>>

\* the await returns once the promise is resolved, then run.end()
RunEnd ==
    /\ pc = "await"
    /\ resolves # <<>>
    /\ pc' = "done"
    /\ UNCHANGED <<childVars, emitted, nStderr, wdVars, lineVars, sinkVars,
                   resolves, cancelReqs, cancelled>>

\* ------------------------------------------------- specifications
Next ==
    \/ StdoutData(FewLines, MaxLines)
    \/ StderrData
    \/ Hang
    \/ ChildExit
    \/ ChildKilled
    \/ WatchdogTick
    \/ OnError
    \/ OnClose
    \/ CancelRequest
    \/ RunEnd

Spec == Init /\ [][Next]_vars

\* The scheduling the runtime gives: a set interval keeps ticking, an emitted
\* event is delivered, the continuation of a resolved promise runs, and a
\* signalled child dies.
Fairness ==
    /\ WF_vars(WatchdogTick)
    /\ WF_vars(ChildKilled)
    /\ WF_vars(OnError)
    /\ WF_vars(OnClose)
    /\ WF_vars(RunEnd)

FairSpec == Spec /\ Fairness

\* The stream alone, over every kind of line: the child writes, exits (or
\* fails to spawn) and closes.
NextStream ==
    \/ StdoutData(Lines, MaxLines)
    \/ ChildExit
    \/ OnError
    \/ OnClose
    \/ RunEnd

StreamSpec == Init /\ [][NextStream]_vars

\* Every event, over the lines that count: a failing test, a top-level error
\* and a report of unknown type.
MixLines ==
    {TextLine, mkLine("testStart", "t1", None),
     mkLine("testEnd", "t1", "failure"), mkLine("error", None, None),
     mkLine("other", None, None)}

NextMix ==
    \/ StdoutData(MixLines, MaxLines)
    \/ StderrData
    \/ Hang
    \/ ChildExit
    \/ ChildKilled
    \/ WatchdogTick
    \/ OnError
    \/ OnClose
    \/ CancelRequest
    \/ RunEnd

MixSpec == Init /\ [][NextMix]_vars

\* Runs long enough for two tests: the stream alone, over the lines of a
\* passing test t1, a failing test t2 and a corrupt line.
PairLines ==
    {mkLine("testStart", "t1", None), mkLine("testEnd", "t1", "success"),
     mkLine("testStart", "t2", None), mkLine("testEnd", "t2", "failure"),
     BadLine}

NextPair ==
    \/ StdoutData(PairLines, MaxLines + 2)
    \/ ChildExit
    \/ OnError
    \/ OnClose
    \/ RunEnd

PairSpec == Init /\ [][NextPair]_vars

\* ------------------------------------------------------------ claims
Count(seq, P(_)) == Cardinality({i \in DOMAIN seq : P(seq[i])})
IsSummary(o) == o.kind \in {"finished", "failedWith"}
\* <<summary lines emitted, resolve() calls made>>
Finalizations == <<Count(output, IsSummary), Len(resolves)>>
NoBad(seq) == \A i \in DOMAIN seq : ~throws(seq[i])
IsSuccessEnd(l) == l.type = "testEnd" /\ l.status = "success"
IsFailing(l) ==
    \/ l.type = "testEnd" /\ l.status \in {"failure", "error"}
    \/ l.type \in {"error", "other"}
Resolved(l) == l.type = "testEnd" => getTest(l.test) # None

C2_EventuallyReleased == <>(resolves # <<>> /\ pc = "done")

\* released after a corrupt line, stderr data, a timeout and a cancellation
C2_Witness ==
    pc = "done" /\ uncaught > 0 /\ nStderr > 0 /\ fired = 1 /\ cancelled

\* C3: a child that has gone silent for good is sent a termination request
\* by the watchdog when the timeout expires, and the run then finalizes with
\* a code other than 0.
C3_HangIsKilledAndFails ==
    /\ [][(proc = "hung" /\ fired' = fired + 1) => signals' = signals + 1]_vars
    /\ (proc = "hung" /\ signals = 0) ~> (signals > 0)
    /\ (proc = "hung") ~> (pc = "done" /\ Len(resolves) = 1 /\ resolves[1] # 0)

\* a hung child the watchdog alone killed, finalized with code 1
C3_Witness ==
    /\ pc = "done" /\ fired = 1 /\ ~cancelled /\ signals = 1
    /\ emitted = <<>> /\ nStderr = 0 /\ resolves = <<1>>

\* C4: the timeout marks the test that is active when the watchdog fires as
\* errored and attributes the timeout line to it.
C4_TimeoutAttributedToActive ==
    (fired > 0 /\ activeAtFire # None)
      => /\ \E i \in DOMAIN calls : calls[i] = call("errored", activeAtFire)
         /\ \E i \in DOMAIN output :
               output[i] = out("timeout", activeAtFire, <<>>)

\* C5: the watchdog fires at most once, and never once 'close' or 'error'
\* has been handled: from then on the interval is cleared.
C5_FiresOnceNeverAfterClose ==
    /\ [](fired <= 1)
    /\ []((proc = "closed" \/ notifications > 0) => ~timer)
    /\ [][fired' # fired => (proc # "closed" /\ notifications = 0)]_vars

\* a run that closed without a timeout when the next tick would have fired,
\* and whose interval is cleared
C5_Witness == proc = "closed" /\ fired = 0 /\ elapsed = IdleTicks /\ ~timer

\* C6: of all termination requests of a run at most one reaches the child.
C6_OneTerminationRequest == signals <= 1

\* C7: every line that follows a corrupt structured line is still processed.
C7_LinesAfterCorruptProcessed ==
    handled = SelectSeq(emitted, LAMBDA l : ~throws(l))

\* C8 as stated: over a stream of reports and passthrough lines the final
\* counters count every testEnd report by its status.
C8_CountersMatchStream ==
    (proc = "closed" /\ NoBad(emitted))
      => /\ cntSuccessTests = Count(emitted, IsSuccessEnd)
         /\ cntFailTests = Count(emitted, IsFailing)

\* C8, amended: over a stream of reports and passthrough lines every line is
\* handled, and the counters count the handled testEnd reports whose name
\* resolves, by status, plus (failCount) the error and unknown reports; a
\* pending testEnd and a testEnd of an unresolved name change neither.
C8_CountersMatchResolved ==
    /\ NoBad(emitted) => handled = emitted
    /\ cntSuccessTests
         = Count(handled, LAMBDA l : IsSuccessEnd(l) /\ Resolved(l))
    /\ cntFailTests = Count(handled, LAMBDA l : IsFailing(l) /\ Resolved(l))

\* a closed run whose stream held a successful testEnd of an unresolved name
\* and a report that counts as a failure
C8_Witness ==
    /\ proc = "closed" /\ NoBad(emitted)
    /\ Count(emitted, IsSuccessEnd) = 1 /\ cntSuccessTests = 0
    /\ cntFailTests = 1

\* C9: a run whose spawn failed shows one notification and one output error
\* line, starts no test, and resolves with code 1.
C9_SpawnFailureResolvesOne ==
    (notifications > 0 /\ proc = "closed")
      => /\ notifications = 1
         /\ Count(output, LAMBDA o : o.kind = "spawnerr") = 1
         /\ Count(calls, LAMBDA c : c.op = "started") = 0
         /\ resolves = <<1>>

\* C10: a cancellation before the child has exited sends it a termination
\* request, the run is then finalized and the caller released with no further
\* event of the child's output needed, and a second cancellation changes
\* nothing.
C10_CancelKillsAndReleases ==
    /\ [][(~cancelled /\ cancelled' /\ alive(proc))
            => signals' = signals + 1]_vars
    /\ cancelled ~> (resolves # <<>> /\ pc = "done")
    /\ [][(cancelled /\ cancelReqs' # cancelReqs)
            => UNCHANGED <<childVars, emitted, nStderr, wdVars, lineVars,
                           sinkVars, resolves, cancelled, pc>>]_vars

\* cancelled twice after a testStart with no testEnd; only the cancellation
\* signalled the child, and the run is over
C10_Witness ==
    /\ pc = "done" /\ cancelReqs = 2 /\ currentTest # None
    /\ fired = 0 /\ signals = 1 /\ resolves = <<1>>

\* the test the stream up to seq leaves active: set by a testStart whose name
\* resolves, cleared by a testEnd
RECURSIVE ActiveAfter(_)
ActiveAfter(seq) ==
    IF seq = <<>> THEN None
    ELSE LET l == seq[Len(seq)] IN
         IF l.type = "testStart" /\ getTest(l.test) # None THEN getTest(l.test)
         ELSE IF l.type = "testEnd" THEN None
         ELSE ActiveAfter(SubSeq(seq, 1, Len(seq) - 1))

IsText(l) == l.type = "text"
Forwarded == SelectSeq(output, LAMBDA o : o.kind = "text")

\* C11: every stdout line without the marker is forwarded verbatim exactly
\* once, in the order the child wrote the lines, attributed to the test active
\* when the line is reached (or to none).
C11_PassthroughForwardedInOrder ==
    /\ Len(Forwarded) = Count(emitted, IsText)
    /\ \A i \in DOMAIN emitted :
         IsText(emitted[i]) =>
           Forwarded[Count(SubSeq(emitted, 1, i), IsText)]
             = out("text", ActiveAfter(SubSeq(emitted, 1, i - 1)),
                   <<emitted[i].text>>)

\* C12: the run resolves with the exit code 'close' carries, with 1 when
\* 'close' carries null, and so with 0 only when the child exited with 0.
C12_ResolvedCode ==
    proc = "closed"
      => /\ exitCode # NullCode => resolves = <<exitCode[1]>>
         /\ exitCode = NullCode => resolves = <<1>>
         /\ resolves = <<0>> => exitCode = <<0>>

\* a child that was killed closes with null and the run resolves with 1
C12_Witness ==
    proc = "closed" /\ signals > 0 /\ exitCode = NullCode /\ resolves = <<1>>

\* C13: at finalization exactly one summary line is emitted, the last line of
\* the output; it has the success wording exactly when the exit code is 0, and
\* the counters it prints are the final counters, which count every report
\* decoded before the close.
C13_SummaryLine ==
    proc = "closed"
      => /\ Count(output, IsSummary) = 1
         /\ LET sum == output[Len(output)] IN
              /\ IsSummary(sum)
              /\ sum.kind = "finished" <=> exitCode = <<0>>
              /\ sum.info = <<cntSuccessTests, cntFailTests>>
              /\ sum.info
                   = <<Count(handled, LAMBDA l : IsSuccessEnd(l) /\ Resolved(l)),
                       Count(handled, LAMBDA l : IsFailing(l) /\ Resolved(l))>>

\* two testStart/testEnd pairs (success, failure), then close with code 0:
\* "Finished successfully with success: 1 and fails: 1", resolved code 0
C13_Witness ==
    /\ proc = "closed"
    /\ emitted = <<mkLine("testStart", "t1", None),
                   mkLine("testEnd", "t1", "success"),
                   mkLine("testStart", "t2", None),
                   mkLine("testEnd", "t2", "failure")>>
    /\ output[Len(output)] = out("finished", None, <<1, 1>>)
    /\ resolves = <<0>>

LastHandled == handled[Len(handled)]
\* every output line attributed to a test follows a run line of that test
\* with no end line in between
AttributedWhileActive ==
    \A j \in DOMAIN output :
      output[j].test # None =>
        \E i \in 1..(j - 1) :
          /\ output[i].kind = "run"
          /\ getTest(output[i].info[1]) = output[j].test
          /\ \A k \in (i + 1)..(j - 1) : output[k].kind # "end"

\* C14 as stated: after a testStart report is processed activeTest is the
\* identity the report resolves to, after a testEnd it is cleared, and no
\* output is attributed to a test after its testEnd.
C14_OverwrittenByEachStart ==
    /\ currentTest \in Known \cup {None}
    /\ (handled # <<>> /\ LastHandled.type = "testStart")
         => currentTest = getTest(LastHandled.test)
    /\ (handled # <<>> /\ LastHandled.type = "testEnd") => currentTest = None
    /\ AttributedWhileActive

\* C14, amended: at most one test is active; activeTest is overwritten by
\* each testStart report whose name resolves and left as it is by a testStart
\* whose name does not resolve (the earlier test stays active); it is cleared
\* by every testEnd report, so no output is attributed to a test after its
\* testEnd.
C14_OverwrittenByResolvedStart ==
    /\ currentTest \in Known \cup {None}
    /\ currentTest = ActiveAfter(handled)
    /\ AttributedWhileActive

\* t1 started, then a testStart of an unresolved name: t1 is still active
C14_Witness ==
    /\ handled = <<mkLine("testStart", "t1", None),
                   mkLine("testStart", "zz", None)>>
    /\ currentTest = "t1"

IsOutcome(c) == c.op # "started"
IsResolvedEnd(l) == l.type = "testEnd" /\ getTest(l.test) # None
OutcomeOf(status) ==
    CASE status = "success" -> "passed"
      [] status = "failure" -> "failed"
      [] status = "pending" -> "skipped"
      [] status = "error" -> "errored"

\* C15: each testEnd report whose name resolves gets exactly one outcome call
\* on its identity, the one of its status, preceded by a testStart or not;
\* passed calls are the success counter, failed and errored calls the part of
\* the fail counter that testEnd reports make up.
C15_OneOutcomePerTestEnd ==
    LET outcomes == SelectSeq(calls, IsOutcome)
        ends == SelectSeq(handled, IsResolvedEnd)
    IN /\ Len(outcomes) = Len(ends)
       /\ \A k \in DOMAIN ends :
            outcomes[k]
              = call(OutcomeOf(ends[k].status), getTest(ends[k].test))
       /\ cntSuccessTests = Count(calls, LAMBDA c : c.op = "passed")
       /\ cntFailTests
            = Count(calls, LAMBDA c : c.op \in {"failed", "errored"})
                + Count(handled, LAMBDA l : l.type \in {"error", "other"})

\* two testEnd reports no testStart preceded: errored and skipped
C15_Witness ==
    /\ handled = <<mkLine("testEnd", "t1", "error"),
                   mkLine("testEnd", "t2", "pending")>>
    /\ calls = <<call("errored", "t1"), call("skipped", "t2")>>
    /\ cntSuccessTests = 0 /\ cntFailTests = 1

IsStart(l) == l.type = "testStart"
\* C20: every testStart report puts its run line on the output, resolved or
\* not; started is called (and activeTest set) only for a name that resolves,
\* and no lifecycle call at all is made for a name that does not.
C20_StartedOnlyWhenResolved ==
    LET runs == SelectSeq(output, LAMBDA o : o.kind = "run")
        starts == SelectSeq(handled, IsStart)
        resolved == SelectSeq(starts, LAMBDA l : getTest(l.test) # None)
        started == SelectSeq(calls, LAMBDA c : c.op = "started")
    IN /\ Len(runs) = Len(starts)
       /\ \A k \in DOMAIN starts : runs[k] = out("run", None, <<starts[k].test>>)
       /\ Len(started) = Len(resolved)
       /\ \A k \in DOMAIN resolved :
            started[k] = call("started", getTest(resolved[k].test))
       /\ \A i \in DOMAIN calls : calls[i].test \in Known
       /\ Len(calls)
            = Count(handled, LAMBDA l : l.type \in {"testStart", "testEnd"}
                                          /\ getTest(l.test) # None)
       /\ (handled # <<>> /\ IsStart(LastHandled)
             /\ getTest(LastHandled.test) = None)
            => currentTest = ActiveAfter(SubSeq(handled, 1, Len(handled) - 1))

\* an unresolved testStart, then a resolved one: two run lines, one started
C20_Witness ==
    /\ handled = <<mkLine("testStart", "zz", None),
                   mkLine("testStart", "t1", None)>>
    /\ Len(output) = 2
    /\ calls = <<call("started", "t1")>>
    /\ currentTest = "t1"

\* C16: every arrival of stdout or stderr data resets the idle clock, and the
\* watchdog fires only when the time since the last data exceeds the timeout.
C16_BumpedByAllOutput ==
    /\ [][(emitted' # emitted \/ nStderr' # nStderr) => elapsed' = 0]_vars
    /\ [][fired' # fired => elapsed' > IdleTicks]_vars

\* the watchdog fired on a child that had written to stdout and to stderr
C16_Witness == fired = 1 /\ nStderr = 1 /\ emitted # <<>>

\* C17: once the run is finalized nothing more is processed: no call on the
\* run sink, no change of the counters, of activeTest or of the child; a
\* cancellation that arrives after the child has exited signals nothing.
C17_NothingAfterFinalization ==
    /\ [][proc = "closed"
            => UNCHANGED <<childVars, sinkVars, lineVars, wdVars, emitted,
                           nStderr, resolves>>]_vars
    /\ [][(proc \in {"exited", "closed"} /\ cancelReqs' # cancelReqs)
            => UNCHANGED <<childVars, sinkVars, lineVars, wdVars, emitted,
                           nStderr, resolves, pc>>]_vars

\* a cancellation that found the child gone: the run is over, nothing sent
C17_Witness ==
    pc = "done" /\ cancelled /\ signals = 0 /\ Finalizations = <<1, 1>>

\* C18: handling a cancellation calls nothing on the run sink and leaves the
\* counters and activeTest as they are; a run whose only abnormal event is the
\* cancellation has no errored or failed call.
C18_CancelForcesNoError ==
    /\ [][cancelReqs' # cancelReqs
            => UNCHANGED <<sinkVars, currentTest, cntSuccessTests,
                           cntFailTests>>]_vars
    /\ []((cancelled /\ fired = 0)
            => Count(calls, LAMBDA c : c.op \in {"errored", "failed"}) = 0)

\* cancelled while t1 was active: t1 was started and nothing else was called
C18_Witness ==
    /\ proc = "closed" /\ cancelled /\ fired = 0 /\ signals = 1
    /\ currentTest = "t1" /\ calls = <<call("started", "t1")>>

NewHandled == SubSeq(handled', Len(handled) + 1, Len(handled'))
IsResolvedFailEnd(l) ==
    l.type = "testEnd" /\ l.status \in {"failure", "error"} /\ Resolved(l)

\* C19 as stated: the counters never decrease and each step changes them by
\* the testEnd and error reports it processes, by nothing else.
C19_ChangedByTestEndOrError ==
    [][/\ cntSuccessTests' - cntSuccessTests
            = Count(NewHandled, LAMBDA l : IsSuccessEnd(l) /\ Resolved(l))
       /\ cntFailTests' - cntFailTests
            = Count(NewHandled,
                    LAMBDA l : IsResolvedFailEnd(l) \/ l.type = "error")]_vars

\* C19, amended: the counters never decrease and each step changes them by
\* the testEnd, error and unknown-type reports it processes; passthrough
\* lines, testStart reports, stderr data, ticks, cancellation, 'error' and
\* 'close' change neither.
C19_ChangedByCountingReports ==
    [][/\ cntSuccessTests' - cntSuccessTests
            = Count(NewHandled, LAMBDA l : IsSuccessEnd(l) /\ Resolved(l))
       /\ cntFailTests' - cntFailTests
            = Count(NewHandled,
                    LAMBDA l : IsResolvedFailEnd(l)
                                 \/ l.type \in {"error", "other"})]_vars

\* an unknown report and an error report counted, with stderr data and a
\* cancellation in the same run
C19_Witness ==
    /\ handled = <<mkLine("other", None, None), mkLine("error", None, None)>>
    /\ cntSuccessTests = 0 /\ cntFailTests = 2
    /\ nStderr = 1 /\ cancelled

====
